---- MODULE Spec2Model ----
(***************************************************************************)
(* A model of the schema combinators of src/mod.ts.                        *)
(*                                                                         *)
(* Schemas are objects on a heap (Heap), built once by the constructors.   *)
(* The only mutable state of a schema is the `message` variable its        *)
(* constructor closes over (the variable `message` below).  One action,    *)
(* Call, is one top-level schema.parse(data): it runs the whole recursive  *)
(* parse, records the result and every parse invocation made on the way    *)
(* (variable `call`), and keeps the closure variables as parse left them.  *)
(*                                                                         *)
(* Input objects are records of own properties (deserialized data); a      *)
(* property read on an absent key gives undefined.                         *)
(*                                                                         *)
(* The constructors that read the schema they are given (as, map, extend,  *)
(* select, exclude) are also run by the callers after startup: one action  *)
(* per constructor, whose outcome (the schema returned or the Error        *)
(* thrown) is held in the variable `built`.                                *)
(***************************************************************************)
EXTENDS Integers, Sequences, FiniteSets, TLC

VARIABLES message, call, built

vars == <<message, call, built>>

(***************************************************************************)
(* JavaScript values.  Every value is a record [t, v]: t is the kind of    *)
(* value, v its content.  An array holds a sequence of values, an object   *)
(* a sequence of <<key, value>> entries in property order.                 *)
(***************************************************************************)
U == [t |-> "undefined", v |-> 0]
Null == [t |-> "null", v |-> 0]
S(s) == [t |-> "string", v |-> s]
N(n) == [t |-> "number", v |-> n]
B(b) == [t |-> "boolean", v |-> b]
D(n) == [t |-> "date", v |-> n]
InvalidDate == [t |-> "invalid date", v |-> 0]
A(s) == [t |-> "array", v |-> s]
O(e) == [t |-> "object", v |-> e]

\* Result values of the library: List (List.from), Option (Option.None / Option.Some)
ListFrom(arr) == [t |-> "List", v |-> arr]
None == [t |-> "None", v |-> 0]
Some(x) == [t |-> "Some", v |-> x]

\* @oxi/core type guards
isString(data) == data.t = "string"
isNumber(data) == data.t = "number"
isBoolean(data) == data.t = "boolean"
isDate(data) == data.t = "date"
isArray(data) == data.t = "array"
isPlainObject(data) == data.t = "object"
isNil(data) == data.t \in {"undefined", "null"}

\* @oxi/core getTypeOf: the runtime type name of a value
getTypeOf(value) ==
  CASE value.t = "invalid date" -> "date"
    [] value.t = "NaN" -> "number"
    [] value.t \in {"List", "None", "Some"} -> "object"
    [] OTHER -> value.t

\* JavaScript truthiness, as used by `message || ...`
Truthy(x) ==
  CASE x.t \in {"undefined", "null", "NaN"} -> FALSE
    [] x.t = "string" -> x.v /= ""
    [] x.t = "number" -> x.v /= 0
    [] x.t = "boolean" -> x.v
    [] OTHER -> TRUE

\* data === value for a primitive `value` (objects are equal by identity only)
StrictEq(data, value) ==
  /\ data.t = value.t
  /\ data.t \in {"undefined", "null", "string", "number", "boolean"}
  /\ data.v = value.v

\* data[key] on an object: the own property, undefined when absent
RECURSIVE Lookup(_, _, _)
Lookup(entries, key, i) ==
  IF i > Len(entries) THEN U
  ELSE IF entries[i][1] = key THEN entries[i][2]
  ELSE Lookup(entries, key, i + 1)

Get(data, key) == Lookup(data.v, key, 1)

\* data[i] on an array: undefined past the end
At(data, i) == IF i < Len(data.v) THEN data.v[i + 1] ELSE U

HasKey(entries, key) == \E i \in 1..Len(entries) : entries[i][1] = key

\* obj[key] = value on a result object under construction
Put(entries, key, value) ==
  IF HasKey(entries, key)
    THEN [i \in 1..Len(entries) |->
            IF entries[i][1] = key THEN <<key, value>> ELSE entries[i]]
    ELSE Append(entries, <<key, value>>)

\* arr.join(sep) for an array of strings
RECURSIVE Join(_, _)
Join(strs, sep) ==
  IF Len(strs) = 0 THEN ""
  ELSE IF Len(strs) = 1 THEN strs[1]
  ELSE strs[1] \o sep \o Join(Tail(strs), sep)

\* JSON.stringify(x) inside a template literal (undefined prints "undefined")
RECURSIVE JSONText(_, _)
JSONText(x, nested) ==
  CASE x.t = "undefined" -> IF nested THEN "null" ELSE "undefined"
    [] x.t = "null" -> "null"
    [] x.t = "string" -> "\"" \o x.v \o "\""
    [] x.t = "number" -> ToString(x.v)
    [] x.t = "boolean" -> IF x.v THEN "true" ELSE "false"
    [] x.t = "array" ->
         "[" \o Join([i \in 1..Len(x.v) |-> JSONText(x.v[i], TRUE)], ",") \o "]"
    [] x.t = "object" ->
         LET kept == SelectSeq(x.v, LAMBDA e : e[2].t /= "undefined") IN
         "{" \o Join([i \in 1..Len(kept) |->
                        "\"" \o kept[i][1] \o "\":" \o JSONText(kept[i][2], TRUE)], ",")
             \o "}"
    [] OTHER -> "null"

JSONstringify(x) == JSONText(x, FALSE)

(***************************************************************************)
(* The built-in conversions the coercion hooks and the steps rely on       *)
(***************************************************************************)
UPPER == "ABCDEFGHIJKLMNOPQRSTUVWXYZ"
LOWER == "abcdefghijklmnopqrstuvwxyz"
DIGITS == "0123456789"

\* the position of the one-character string c in the string chars, 0 when absent
IndexOf(chars, c) ==
  IF \E i \in 1..Len(chars) : SubSeq(chars, i, i) = c
    THEN CHOOSE i \in 1..Len(chars) : SubSeq(chars, i, i) = c
    ELSE 0

\* String.prototype.toLowerCase / toUpperCase (ASCII letters)
RECURSIVE toLowerCase(_)
toLowerCase(s) ==
  IF Len(s) = 0 THEN ""
  ELSE
    LET c == SubSeq(s, 1, 1)
        i == IndexOf(UPPER, c)
    IN (IF i = 0 THEN c ELSE SubSeq(LOWER, i, i)) \o toLowerCase(SubSeq(s, 2, Len(s)))

RECURSIVE toUpperCase(_)
toUpperCase(s) ==
  IF Len(s) = 0 THEN ""
  ELSE
    LET c == SubSeq(s, 1, 1)
        i == IndexOf(LOWER, c)
    IN (IF i = 0 THEN c ELSE SubSeq(UPPER, i, i)) \o toUpperCase(SubSeq(s, 2, Len(s)))

\* the value NaN
NaN == [t |-> "NaN", v |-> 0]

\* a < b and a > b on numbers: every comparison with NaN is false
Less(a, b) == a.t = "number" /\ b.t = "number" /\ a.v < b.v
Greater(a, b) == Less(b, a)

\* Math.max(a, b) and Math.min(a, b): NaN when an argument is NaN
MathMax(a, b) ==
  IF a.t = "NaN" \/ b.t = "NaN" THEN NaN ELSE IF a.v < b.v THEN b ELSE a
MathMin(a, b) ==
  IF a.t = "NaN" \/ b.t = "NaN" THEN NaN ELSE IF b.v < a.v THEN b ELSE a

\* the number written by a string of decimal digits, after the digits read so far
RECURSIVE DigitsValue(_, _)
DigitsValue(s, acc) ==
  IF Len(s) = 0 THEN acc
  ELSE DigitsValue(SubSeq(s, 2, Len(s)), 10 * acc + IndexOf(DIGITS, SubSeq(s, 1, 1)) - 1)

IsDigits(s) ==
  /\ Len(s) > 0
  /\ \A i \in 1..Len(s) : IndexOf(DIGITS, SubSeq(s, i, i)) /= 0

\* Number(s) for a string: the empty string is 0, a decimal integer literal
\* is its value, a string that is not a numeric literal is NaN
StringToNumber(s) ==
  IF Len(s) = 0 THEN N(0)
  ELSE IF IsDigits(s) THEN N(DigitsValue(s, 0))
  ELSE IF SubSeq(s, 1, 1) = "-" /\ IsDigits(SubSeq(s, 2, Len(s)))
    THEN N(0 - DigitsValue(SubSeq(s, 2, Len(s)), 0))
  ELSE NaN

\* String(x)
RECURSIVE String(_)
String(x) ==
  CASE x.t = "string" -> x.v
    [] x.t = "number" -> ToString(x.v)
    [] x.t = "NaN" -> "NaN"
    [] x.t = "boolean" -> IF x.v THEN "true" ELSE "false"
    [] x.t = "undefined" -> "undefined"
    [] x.t = "null" -> "null"
    [] x.t = "array" ->
         Join([i \in 1..Len(x.v) |->
                 IF x.v[i].t \in {"undefined", "null"} THEN "" ELSE String(x.v[i])], ",")
    [] x.t = "invalid date" -> "Invalid Date"
    [] OTHER -> "[object Object]"

\* Number(x)
Number(x) ==
  CASE x.t = "number" -> x
    [] x.t = "string" -> StringToNumber(x.v)
    [] x.t = "boolean" -> IF x.v THEN N(1) ELSE N(0)
    [] x.t = "null" -> N(0)
    [] x.t = "date" -> N(x.v)
    [] x.t = "array" -> StringToNumber(String(x))
    [] OTHER -> NaN

\* Boolean(x)
Boolean(x) == B(Truthy(x))

\* the date strings the callers use, with their time value in milliseconds
DateStrings ==
  [s \in {"1970-01-01", "1970-01-02"} |->
     IF s = "1970-01-01" THEN 0 ELSE 86400000]

\* new Date(x) for a number (the time value) or a string (a date string,
\* or text that is no date and gives an invalid date)
NewDate(x) ==
  CASE x.t = "number" -> D(x.v)
    [] x.t = "string" ->
         IF x.v \in DOMAIN DateStrings THEN D(DateStrings[x.v]) ELSE InvalidDate
    [] OTHER -> InvalidDate

(***************************************************************************)
(* Result<T, ParseError> and the error model                               *)
(***************************************************************************)
NoErr == [actual |-> "", expected |-> "", message |-> "", path |-> <<>>, value |-> U]
Ok(value) == [ok |-> TRUE, val |-> value, err |-> NoErr]
Err(e) == [ok |-> FALSE, val |-> U, err |-> e]
isOk(result) == result.ok
isErr(result) == ~result.ok

err(expected, value, msg) ==
  LET actual == getTypeOf(value) IN
  [actual |-> actual,
   expected |-> expected,
   message |-> IF Truthy(msg) THEN msg.v
               ELSE "Expected " \o expected \o ", but got " \o actual,
   path |-> <<>>,
   value |-> value]

(***************************************************************************)
(* The schema constructors.  A schema object holds its `type`, its         *)
(* `message` property and the fields it exposes; `parse` names the parse   *)
(* closure the constructor returns.  Child schemas are references (heap    *)
(* ids); props is the ordered property map of an object schema.            *)
(***************************************************************************)
any == [type |-> "unknown", message |-> U, parse |-> "any"]
str(msg) == [type |-> "string", message |-> msg, parse |-> "str"]
num(msg) == [type |-> "number", message |-> msg, parse |-> "num"]
bool(msg) == [type |-> "boolean", message |-> msg, parse |-> "bool"]
date(msg) == [type |-> "date", message |-> msg, parse |-> "date"]
list(schema, msg) ==
  [type |-> "list", message |-> msg, parse |-> "list", schema |-> schema]
obj(props, msg) ==
  [type |-> "object", message |-> msg, parse |-> "obj", props |-> props]
record(key, value, msg) ==
  [type |-> "record", message |-> msg, parse |-> "record", key |-> key, value |-> value]
union(schemas, msg) ==
  [type |-> "union", message |-> msg, parse |-> "union", schemas |-> schemas]
tuple(schemas, msg) ==
  [type |-> "tuple", message |-> msg, parse |-> "tuple", schemas |-> schemas]
oneOf(values, msg) ==
  [type |-> "oneOf", message |-> msg, parse |-> "oneOf", values |-> values]
lit(value, msg) ==
  [type |-> "literal", message |-> msg, parse |-> "lit", value |-> value]
opt(schema) ==
  [type |-> "optional", message |-> U, parse |-> "opt", schema |-> schema]
def(schema, defaultValue, msg) ==
  [type |-> "default", message |-> msg, parse |-> "def", schema |-> schema,
   defaultValue |-> defaultValue]
\* pipe(schema, ...pipeline): pipeline is the list of the step functions
pipe(schema, pipeline) ==
  [type |-> "pipe", parse |-> "pipe", schema |-> schema, pipeline |-> pipeline]

(***************************************************************************)
(* The constructors that read the schema objects they are given.  `heap`   *)
(* is the store in which the references they receive are resolved.  A      *)
(* constructor call either returns a schema or throws an Error.            *)
(***************************************************************************)
Returned(value) == [thrown |-> FALSE, value |-> value, error |-> ""]
Thrown(error) == [thrown |-> TRUE, value |-> U, error |-> error]

\* { ...schema, parse }: every property of the schema with parse replaced;
\* the new parse closes over schema and hook
pre(heap, schema, hook) ==
  [f \in DOMAIN heap[schema] \cup {"parse", "schema", "hook"} |->
     CASE f = "parse" -> "pre"
       [] f = "schema" -> schema
       [] f = "hook" -> hook
       [] OTHER -> heap[schema][f]]

\* an as without the default branch of the switch
asNoDefault(heap, schema) ==
  CASE heap[schema].type = "number" -> Returned(pre(heap, schema, "tryNum"))
    [] heap[schema].type = "boolean" -> Returned(pre(heap, schema, "tryBool"))
    [] heap[schema].type = "date" -> Returned(pre(heap, schema, "tryDate"))
    [] OTHER -> Returned(pre(heap, schema, "tryStr"))

as(heap, schema) ==
  CASE heap[schema].type = "number" -> Returned(pre(heap, schema, "tryNum"))
    [] heap[schema].type = "string" -> Returned(pre(heap, schema, "tryStr"))
    [] heap[schema].type = "boolean" -> Returned(pre(heap, schema, "tryBool"))
    [] heap[schema].type = "date" -> Returned(pre(heap, schema, "tryDate"))
    [] OTHER ->
         Thrown("Cannot coerce \"" \o heap[schema].type \o "\" to a primitive type")

map(heap, schema, mapper) ==
  [type |-> heap[schema].type, parse |-> "map", schema |-> schema, mapper |-> mapper]

\* Object.assign(target, ...sources) on property maps
RECURSIVE assignEntries(_, _, _)
\* an assignment that never overwrites a property the target already has
assignEntriesKeepFirst(target, source, i) ==
  IF i > Len(source) THEN target
  ELSE assignEntries(IF HasKey(target, source[i][1]) THEN target
                     ELSE Put(target, source[i][1], source[i][2]),
                     source, i + 1)

assignEntries(target, source, i) ==
  IF i > Len(source) THEN target
  ELSE assignEntries(Put(target, source[i][1], source[i][2]), source, i + 1)

RECURSIVE assign(_, _, _)
assign(target, sources, i) ==
  IF i > Len(sources) THEN target
  ELSE assign(assignEntries(target, sources[i], 1), sources, i + 1)

\* pick and omit of @oxi/core on a property map; keys are listed in the
\* order in which the map declares them
pick(props, keys) ==
  SelectSeq(props, LAMBDA e : \E i \in 1..Len(keys) : keys[i] = e[1])
\* an omit that removes nothing
omitNothing(props, keys) == props
omit(props, keys) ==
  SelectSeq(props, LAMBDA e : \A i \in 1..Len(keys) : keys[i] /= e[1])

extend(heap, schemas, msg) ==
  obj(assign(<<>>, [i \in 1..Len(schemas) |-> heap[schemas[i]].props], 1), msg)
select(heap, schema, keys, msg) == obj(pick(heap[schema].props, keys), msg)
exclude(heap, schema, keys, msg) == obj(omit(heap[schema].props, keys), msg)

\* partial(schema) and required(schema) are not part of src/mod.ts; they are
\* modelled after their description.  partial wraps the child of every
\* property with opt: it returns the new object schema, stored under the
\* reference self, together with the wrappers it creates, stored under self
\* followed by "." and the key.  required replaces every child, an opt
\* wrapper, by the schema it wraps.
partial(heap, schema, self) ==
  LET props == heap[schema].props
      wrapper(k) == self \o "." \o props[k][1]
  IN
  [id \in {self} \cup {wrapper(k) : k \in 1..Len(props)} |->
     IF id = self
       THEN obj([k \in 1..Len(props) |-> <<props[k][1], wrapper(k)>>], U)
       ELSE opt(props[CHOOSE k \in 1..Len(props) : wrapper(k) = id][2])]

required(heap, schema) ==
  LET props == heap[schema].props IN
  obj([k \in 1..Len(props) |-> <<props[k][1], heap[props[k][2]].schema>>], U)

(***************************************************************************)
(* The step functions (Pipe<T>): each constructor returns a function       *)
(* object; fn names the function body, the other fields are the variables  *)
(* it closes over.  fail and toNumber are the steps the callers write      *)
(* themselves: () => Result.Err(m) and (v) => Result.Ok(Number(v)).        *)
(***************************************************************************)
minLen(min_, msg) == [fn |-> "minLen", min |-> min_, message |-> msg]
maxLen(max_, msg) == [fn |-> "maxLen", max |-> max_, message |-> msg]
upcase == [fn |-> "upcase"]
lowcase == [fn |-> "lowcase"]
notEmpty(msg) ==
  [fn |-> "notEmpty", msg |-> IF isNil(msg) THEN "Expected value to be non-empty" ELSE msg.v]
min(min_, msg) ==
  [fn |-> "min", min |-> min_,
   msg |-> IF isNil(msg) THEN "Expected value to be at least " \o ToString(min_) ELSE msg.v]
max(max_, msg) ==
  [fn |-> "max", max |-> max_,
   msg |-> IF isNil(msg) THEN "Expected value to be at most " \o ToString(max_) ELSE msg.v]
clamp(min_, max_) == [fn |-> "clamp", min |-> min_, max |-> max_]
positive(msg) == min(0, S(IF isNil(msg) THEN "Expected value to be positive" ELSE msg.v))
negative(msg) == max(0, S(IF isNil(msg) THEN "Expected value to be negative" ELSE msg.v))
range(min_, max_, msg) == [fn |-> "range", min |-> min_, max |-> max_, message |-> msg]
fail(m) == [fn |-> "fail", m |-> m]
toNumber == [fn |-> "toNumber"]

\* the step functions built at startup
Fns ==
  [upcase |-> upcase,
   lowcase |-> lowcase,
   minLen2 |-> minLen(2, U),
   minLen2E |-> minLen(2, S("")),
   maxLen1M |-> maxLen(1, S("Too long")),
   notEmpty |-> notEmpty(U),
   min0 |-> min(0, U),
   max1M |-> max(1, S("Too big")),
   failM |-> fail("Invalid string"),
   toNumber |-> toNumber,
   min3 |-> min(3, U),
   max5 |-> max(5, U),
   clamp35 |-> clamp(3, 5),
   clamp00 |-> clamp(0, 0),
   positive |-> positive(U),
   negative |-> negative(S("Invalid value")),
   range35 |-> range(3, 5, U),
   range35M |-> range(3, 5, S("Invalid value")),
   range00 |-> range(0, 0, U)]

(***************************************************************************)
(* The schemas built at startup.  Each field is one schema object; its     *)
(* name is the reference other schemas and the callers hold.               *)
(***************************************************************************)
Core ==
  [any |-> any,
   str |-> str(U),
   strM |-> str(S("Invalid string")),
   num |-> num(U),
   bool |-> bool(U),
   date |-> date(U),
   litA |-> lit(S("a"), U),
   litXM |-> lit(S("x"), S("Invalid key")),
   oneOfM |-> oneOf(<<S("a"), S("b")>>, S("Invalid value")),
   listStr |-> list("str", U),
   listStrM |-> list("strM", S("Invalid list")),
   listObj |-> list("objX", U),
   listList |-> list("listStr", U),
   objXY |-> obj(<<<<"x", "str">>, <<"y", "num">>>>, U),
   objX |-> obj(<<<<"x", "num">>>>, S("Invalid object")),
   objAny |-> obj(<<<<"y", "any">>, <<"x", "optStr">>>>, U),
   objLit |-> obj(<<<<"x", "litA">>>>, U),
   objList |-> obj(<<<<"x", "listStr">>, <<"y", "tupSN">>>>, U),
   recStrNum |-> record("str", "num", U),
   recLit |-> record("litXM", "listStr", S("Invalid record")),
   unionSN |-> union(<<"str", "num">>, U),
   unionM |-> union(<<"objXY", "listStr">>, S("Invalid union")),
   unionOpt |-> union(<<"optStr", "str", "any">>, U),
   unionDeep |-> union(<<"listObj", "objList">>, U),
   tupSN |-> tuple(<<"str", "num">>, U),
   tupM |-> tuple(<<"listStr", "objX">>, S("Invalid tuple")),
   optStr |-> opt("str"),
   optList |-> opt("listObj"),
   defNum |-> def("num", N(0), U),
   defBad |-> def("listStr", S("a"), U)]

\* the schemas the first group of callers parses with
Ids == DOMAIN Core

\* more schemas built from their arguments alone
More ==
  [numM |-> num(S("Invalid number")),
   boolM |-> bool(S("Invalid boolean")),
   oneOfAB |-> oneOf(<<S("a"), S("b")>>, U),
   objNN |-> obj(<<<<"x", "num">>, <<"y", "num">>>>, U),
   objY |-> obj(<<<<"y", "num">>>>, U),
   pipeUpMin |-> pipe("str", <<"upcase", "minLen2">>),
   pipeMinE |-> pipe("str", <<"minLen2E", "upcase">>),
   pipeThree |-> pipe("strM", <<"lowcase", "maxLen1M", "failM">>),
   pipeList |-> pipe("listStr", <<"notEmpty">>),
   pipeNum |-> pipe("num", <<"min0", "max1M">>)]

Plain == Core @@ More

\* the schemas built by the constructors that read their argument, which
\* they find in heap
Derived(heap) ==
  [asStr |-> as(heap, "str").value,
   asNum |-> as(heap, "numM").value,
   asBool |-> as(heap, "boolM").value,
   asDate |-> as(heap, "date").value,
   mapNum |-> map(heap, "str", "toNumber"),
   mapFail |-> map(heap, "strM", "failM"),
   mapMinE |-> map(heap, "str", "minLen2E"),
   mapList |-> map(heap, "listStr", "notEmpty"),
   mapPipe |-> map(heap, "pipeUpMin", "toNumber"),
   extXYX |-> extend(heap, <<"objXY", "objX">>, U),
   extXXY |-> extend(heap, <<"objX", "objXY">>, S("Invalid extension")),
   selY |-> select(heap, "objXY", <<"y">>, U),
   exclY |-> exclude(heap, "objXY", <<"y">>, S("Invalid exclusion"))]

\* the pipes over numbers, the nested pipes and the pipes they flatten to
Pipes ==
  [numClamp |-> pipe("num", <<"clamp35">>),
   numClampTwice |-> pipe("num", <<"clamp35", "clamp35">>),
   numClamp0 |-> pipe("num", <<"clamp00">>),
   numPos |-> pipe("num", <<"positive">>),
   numNeg |-> pipe("num", <<"negative">>),
   numPosNeg |-> pipe("num", <<"positive", "negative">>),
   numRange |-> pipe("num", <<"range35">>),
   numRangeM |-> pipe("num", <<"range35M">>),
   numRange0 |-> pipe("num", <<"range00">>),
   numMinMax |-> pipe("num", <<"min3", "max5">>),
   txtClamp |-> pipe("mapNum", <<"clamp35", "clamp35">>),
   txtPosNeg |-> pipe("mapNum", <<"positive", "negative">>),
   txtRange |-> pipe("mapNum", <<"range35">>),
   txtMinMax |-> pipe("mapNum", <<"min3", "max5">>),
   inUp |-> pipe("str", <<"upcase">>),
   nestUpMin |-> pipe("inUp", <<"minLen2">>),
   inMinE |-> pipe("str", <<"minLen2E">>),
   nestMinEUp |-> pipe("inMinE", <<"upcase">>),
   inFail |-> pipe("strM", <<"failM">>),
   nestFail |-> pipe("inFail", <<"upcase">>),
   flatFail |-> pipe("strM", <<"failM", "upcase">>),
   inLit |-> pipe("litA", <<"upcase">>),
   nestLit |-> pipe("inLit", <<"minLen2">>),
   flatLit |-> pipe("litA", <<"upcase", "minLen2">>),
   pipeNone |-> pipe("strM", <<>>)]

\* an object schema whose properties are all optional, and the schemas
\* that partial and required build
Optional ==
  [optNum |-> opt("num"),
   objOpt |-> obj(<<<<"x", "optStr">>, <<"y", "optNum">>>>, U)]
Wrapped(heap) ==
  [reqOpt |-> required(heap, "objOpt")] @@ partial(heap, "objXY", "partXY")

Heap == Plain @@ Derived(Plain) @@ Pipes @@ Optional @@ Wrapped(Core @@ Optional)

\* the schemas the third group of callers parses with
RefinedIds ==
  (DOMAIN Pipes) \cup {"pipeUpMin", "pipeMinE", "strM", "objXY", "objOpt", "reqOpt", "partXY"}

\* the schemas the second group of callers parses with
DerivedIds ==
  {"str", "strM", "num", "numM", "bool", "boolM", "any", "litA", "objXY", "objX"}
    \cup (DOMAIN More) \cup (DOMAIN Derived(Plain))

(***************************************************************************)
(* parse.  Every parse method takes the schema object it is called on      *)
(* (this), the reference to that object (self), the data, the position of  *)
(* the invocation in the call tree (at: the root                           *)
(* call is <<>>, the k-th parse a call makes is at \o <<k>>) and the       *)
(* state st = [message: the closure variables, calls: the invocations      *)
(* that have returned so far]; it returns [result, st].                    *)
(***************************************************************************)
Ret(result, st) == [result |-> result, st |-> st]

RECURSIVE Parse(_, _, _, _)

anyParse(this, self, data, at, st) == Ret(Ok(data), st)

strParse(this, self, data, at, st) ==
  IF isString(data) THEN Ret(Ok(data), st)
  ELSE Ret(Err(err(this.type, data, st.message[self])), st)

\* a parse that drops the constructor's message
numParseNoOverride(this, self, data, at, st) ==
  IF isNumber(data) THEN Ret(Ok(data), st)
  ELSE Ret(Err(err(this.type, data, U)), st)

numParse(this, self, data, at, st) ==
  IF isNumber(data) THEN Ret(Ok(data), st)
  ELSE Ret(Err(err(this.type, data, st.message[self])), st)

boolParse(this, self, data, at, st) ==
  IF isBoolean(data) THEN Ret(Ok(data), st)
  ELSE Ret(Err(err(this.type, data, st.message[self])), st)

dateParse(this, self, data, at, st) ==
  IF isDate(data) THEN Ret(Ok(D(data.v)), st)
  ELSE Ret(Err(err(this.type, data, st.message[self])), st)

\* the for loop of list.parse, from index i with arr filled below i
RECURSIVE listLoop(_, _, _, _, _, _, _)
\* mutant: the index is appended to the child's path instead of prepended
listLoopAppendsSegment(this, self, data, at, st, i, arr) ==
  IF ~(i < Len(data.v)) THEN Ret(Ok(ListFrom(arr)), st)
  ELSE
    LET out == Parse(this.schema, At(data, i), at \o <<i + 1>>, st) IN
    IF isErr(out.result)
      THEN Ret(Err([out.result.err EXCEPT !.path = @ \o <<ToString(i)>>]), out.st)
      ELSE listLoop(this, self, data, at, out.st, i + 1, Append(arr, out.result.val))

\* a loop that puts the list's own message on an element's failure
listLoopOwnMessage(this, self, data, at, st, i, arr) ==
  IF ~(i < Len(data.v)) THEN Ret(Ok(ListFrom(arr)), st)
  ELSE
    LET out == Parse(this.schema, At(data, i), at \o <<i + 1>>, st) IN
    IF isErr(out.result)
      THEN Ret(Err([out.result.err EXCEPT
                      !.path = <<ToString(i)>> \o @,
                      !.message = IF Truthy(st.message[self])
                                    THEN st.message[self].v ELSE @]), out.st)
      ELSE listLoop(this, self, data, at, out.st, i + 1, Append(arr, out.result.val))

listLoop(this, self, data, at, st, i, arr) ==
  IF ~(i < Len(data.v)) THEN Ret(Ok(ListFrom(arr)), st)
  ELSE
    LET out == Parse(this.schema, At(data, i), at \o <<i + 1>>, st) IN
    IF isErr(out.result)
      THEN Ret(Err([out.result.err EXCEPT !.path = <<ToString(i)>> \o @]), out.st)
      ELSE listLoop(this, self, data, at, out.st, i + 1, Append(arr, out.result.val))

\* mutant: a non-array input is treated as an empty array
listParseNoArrayCheck(this, self, data, at, st) ==
  IF ~isArray(data) THEN Ret(Ok(ListFrom(<<>>)), st)
  ELSE listLoop(this, self, data, at, st, 0, <<>>)

listParse(this, self, data, at, st) ==
  IF ~isArray(data) THEN Ret(Err(err(this.type, data, st.message[self])), st)
  ELSE listLoop(this, self, data, at, st, 0, <<>>)

\* the for-in loop of obj.parse over props, from the i-th declared key
RECURSIVE objLoop(_, _, _, _, _, _, _)
\* a loop that passes over the declared keys the input does not have
objLoopSkipsAbsent(this, self, data, at, st, i, object) ==
  IF i > Len(this.props) THEN Ret(Ok(O(object)), st)
  ELSE IF ~HasKey(data.v, this.props[i][1])
    THEN objLoop(this, self, data, at, st, i + 1, object)
  ELSE
    LET key == this.props[i][1]
        out == Parse(this.props[i][2], Get(data, key), at \o <<i>>, st)
    IN
    IF isErr(out.result)
      THEN Ret(Err([out.result.err EXCEPT !.path = <<key>> \o @]), out.st)
      ELSE objLoop(this, self, data, at, out.st, i + 1, Put(object, key, out.result.val))

objLoop(this, self, data, at, st, i, object) ==
  IF i > Len(this.props) THEN Ret(Ok(O(object)), st)
  ELSE
    LET key == this.props[i][1]
        out == Parse(this.props[i][2], Get(data, key), at \o <<i>>, st)
    IN
    IF isErr(out.result)
      THEN Ret(Err([out.result.err EXCEPT !.path = <<key>> \o @]), out.st)
      ELSE objLoop(this, self, data, at, out.st, i + 1, Put(object, key, out.result.val))

\* mutant: the result object starts as a copy of the input properties
objParseKeepsExcess(this, self, data, at, st) ==
  IF ~isPlainObject(data)
    THEN Ret(Err(err(this.type, data, st.message[self])), st)
  ELSE objLoop(this, self, data, at, st, 1, data.v)

objParse(this, self, data, at, st) ==
  IF ~isPlainObject(data)
    THEN Ret(Err(err(this.type, data, st.message[self])), st)
  ELSE objLoop(this, self, data, at, st, 1, <<>>)

\* the for-in loop of record.parse over the keys of data, from the i-th key;
\* n counts the parse invocations made so far
RECURSIVE recordLoop(_, _, _, _, _, _, _, _)
\* a loop that validates the value of an entry before its key
recordLoopValueFirst(this, self, data, at, st, i, n, object) ==
  IF i > Len(data.v) THEN Ret(Ok(O(object)), st)
  ELSE
    LET k == data.v[i][1]
        valueResult == Parse(this.value, data.v[i][2], at \o <<n + 1>>, st)
        keyResult == Parse(this.key, S(k), at \o <<n + 2>>, valueResult.st)
    IN
    IF isErr(valueResult.result)
      THEN Ret(Err([valueResult.result.err EXCEPT !.path = <<k>> \o @]), valueResult.st)
    ELSE IF isErr(keyResult.result)
      THEN Ret(Err([keyResult.result.err EXCEPT !.path = <<k>> \o @]), keyResult.st)
    ELSE recordLoop(this, self, data, at, keyResult.st, i + 1, n + 2,
                    Put(object, keyResult.result.val.v, valueResult.result.val))

\* a loop that reports a failing value as a failure of the record itself
recordLoopOwnError(this, self, data, at, st, i, n, object) ==
  IF i > Len(data.v) THEN Ret(Ok(O(object)), st)
  ELSE
    LET k == data.v[i][1]
        keyResult == Parse(this.key, S(k), at \o <<n + 1>>, st)
        valueResult == Parse(this.value, data.v[i][2], at \o <<n + 2>>, keyResult.st)
    IN
    IF isErr(keyResult.result)
      THEN Ret(Err([keyResult.result.err EXCEPT !.path = <<k>> \o @]), keyResult.st)
    ELSE IF isErr(valueResult.result)
      THEN Ret(Err([err(this.type, data.v[i][2], st.message[self])
                      EXCEPT !.path = <<k>> \o valueResult.result.err.path]),
               valueResult.st)
    ELSE recordLoop(this, self, data, at, valueResult.st, i + 1, n + 2,
                    Put(object, keyResult.result.val.v, valueResult.result.val))

recordLoop(this, self, data, at, st, i, n, object) ==
  IF i > Len(data.v) THEN Ret(Ok(O(object)), st)
  ELSE
    LET k == data.v[i][1]
        keyResult == Parse(this.key, S(k), at \o <<n + 1>>, st)
        valueResult == Parse(this.value, data.v[i][2], at \o <<n + 2>>, keyResult.st)
    IN
    IF isErr(keyResult.result)
      THEN Ret(Err([keyResult.result.err EXCEPT !.path = <<k>> \o @]), keyResult.st)
    ELSE IF isErr(valueResult.result)
      THEN Ret(Err([valueResult.result.err EXCEPT !.path = <<k>> \o @]), valueResult.st)
    ELSE recordLoop(this, self, data, at, valueResult.st, i + 1, n + 2,
                    Put(object, keyResult.result.val.v, valueResult.result.val))

recordParse(this, self, data, at, st) ==
  IF ~isPlainObject(data)
    THEN Ret(Err(err(this.type, data, st.message[self])), st)
  ELSE recordLoop(this, self, data, at, st, 1, 0, <<>>)

\* the for-of loop of union.parse over schemas, from the i-th alternative
RECURSIVE unionLoop(_, _, _, _, _, _)
\* mutant: every alternative is tried and the last success is returned
unionLoopTakesLast(this, self, data, at, st, i) ==
  IF i > Len(this.schemas)
    THEN Ret(Err(err(Join([j \in 1..Len(this.schemas) |->
                             Heap[this.schemas[j]].type], " | "),
                     data, st.message[self])), st)
  ELSE
    LET out == Parse(this.schemas[i], data, at \o <<i>>, st)
        rest == unionLoop(this, self, data, at, out.st, i + 1)
    IN
    IF isOk(out.result) /\ isErr(rest.result) THEN Ret(out.result, rest.st)
    ELSE rest

\* mutant: when all alternatives fail, the error of the last one is returned
unionLoopLastError(this, self, data, at, st, i) ==
  IF i > Len(this.schemas)
    THEN Ret(Err(err(Join([j \in 1..Len(this.schemas) |->
                             Heap[this.schemas[j]].type], " | "),
                     data, st.message[self])), st)
  ELSE
    LET out == Parse(this.schemas[i], data, at \o <<i>>, st) IN
    IF isOk(out.result) \/ i = Len(this.schemas) THEN Ret(out.result, out.st)
    ELSE unionLoop(this, self, data, at, out.st, i + 1)

unionLoop(this, self, data, at, st, i) ==
  IF i > Len(this.schemas)
    THEN Ret(Err(err(Join([j \in 1..Len(this.schemas) |->
                             Heap[this.schemas[j]].type], " | "),
                     data, st.message[self])), st)
  ELSE
    LET out == Parse(this.schemas[i], data, at \o <<i>>, st) IN
    IF isOk(out.result) THEN Ret(out.result, out.st)
    ELSE unionLoop(this, self, data, at, out.st, i + 1)

unionParse(this, self, data, at, st) == unionLoop(this, self, data, at, st, 1)

\* the for loop of tuple.parse, from index i with arr filled below i
RECURSIVE tupleLoop(_, _, _, _, _, _, _)
\* mutant: the positions after a failing one are still parsed
tupleLoopKeepsGoing(this, self, data, at, st, i, arr) ==
  IF ~(i < Len(this.schemas)) THEN Ret(Ok(A(arr)), st)
  ELSE
    LET out == Parse(this.schemas[i + 1], At(data, i), at \o <<i + 1>>, st)
        rest == tupleLoop(this, self, data, at, out.st, i + 1, arr)
    IN
    IF isErr(out.result)
      THEN Ret(Err([out.result.err EXCEPT !.path = <<ToString(i)>> \o @]), rest.st)
      ELSE tupleLoop(this, self, data, at, out.st, i + 1, Append(arr, out.result.val))

tupleLoop(this, self, data, at, st, i, arr) ==
  IF ~(i < Len(this.schemas)) THEN Ret(Ok(A(arr)), st)
  ELSE
    LET out == Parse(this.schemas[i + 1], At(data, i), at \o <<i + 1>>, st) IN
    IF isErr(out.result)
      THEN Ret(Err([out.result.err EXCEPT !.path = <<ToString(i)>> \o @]), out.st)
      ELSE tupleLoop(this, self, data, at, out.st, i + 1, Append(arr, out.result.val))

\* mutant: the length of the array is not compared with the number of schemas
tupleParseNoLength(this, self, data, at, st) ==
  IF ~isArray(data)
    THEN Ret(Err(err(this.type, data, st.message[self])), st)
  ELSE tupleLoop(this, self, data, at, st, 0, <<>>)

tupleParse(this, self, data, at, st) ==
  IF ~isArray(data) \/ Len(data.v) /= Len(this.schemas)
    THEN Ret(Err(err(this.type, data, st.message[self])), st)
  ELSE tupleLoop(this, self, data, at, st, 0, <<>>)

\* values.includes(data)
includes(values, data) == \E i \in 1..Len(values) : StrictEq(data, values[i])

\* message ??= ... : the closure variable is assigned when it is undefined or null
oneOfParse(this, self, data, at, st) ==
  IF includes(this.values, data) THEN Ret(Ok(data), st)
  ELSE
    LET m == IF isNil(st.message[self])
               THEN S("Expected one of " \o JSONstringify(A(this.values))
                      \o ", but got " \o JSONstringify(data))
               ELSE st.message[self]
        st1 == [st EXCEPT !.message[self] = m]
    IN Ret(Err(err(this.type, data, m)), st1)

litParse(this, self, data, at, st) ==
  IF StrictEq(data, this.value) THEN Ret(Ok(this.value), st)
  ELSE
    LET m == IF isNil(st.message[self])
               THEN S("Expected " \o JSONstringify(this.value)
                      \o ", but got " \o JSONstringify(data))
               ELSE st.message[self]
        st1 == [st EXCEPT !.message[self] = m]
    IN Ret(Err(err(this.type, data, m)), st1)

\* Result.map(Option.Some)
mapSome(result) == IF isOk(result) THEN Ok(Some(result.val)) ELSE result

\* mutant: a failure of the child is reinterpreted as absence
optParseFailureIsAbsent(this, self, data, at, st) ==
  IF isNil(data) THEN Ret(Ok(None), st)
  ELSE
    LET out == Parse(this.schema, data, at \o <<1>>, st) IN
    IF isErr(out.result) THEN Ret(Ok(None), out.st)
    ELSE Ret(mapSome(out.result), out.st)

\* an opt without the test for null and undefined
optParseNoNilCheck(this, self, data, at, st) ==
  LET out == Parse(this.schema, data, at \o <<1>>, st) IN
  Ret(mapSome(out.result), out.st)

optParse(this, self, data, at, st) ==
  IF isNil(data) THEN Ret(Ok(None), st)
  ELSE
    LET out == Parse(this.schema, data, at \o <<1>>, st) IN
    Ret(mapSome(out.result), out.st)

\* mutant: the default value is validated by the child schema
defParseValidatesDefault(this, self, data, at, st) ==
  IF isNil(data) THEN Parse(this.schema, this.defaultValue, at \o <<1>>, st)
  ELSE Parse(this.schema, data, at \o <<1>>, st)

defParse(this, self, data, at, st) ==
  IF isNil(data) THEN Ret(Ok(this.defaultValue), st)
  ELSE Parse(this.schema, data, at \o <<1>>, st)

\* the casts of the coercion layer
tryNum(data) == Number(data)
tryStr(data) == S(String(data))
\* a cast that leaves every value that is not a string as it is
tryBoolStringsOnly(data) ==
  IF isString(data)
    THEN B(includes(<<S("true"), S("1"), S("yes"), S("on")>>, S(toLowerCase(data.v))))
    ELSE data
\* a cast that compares the string as it is written
tryBoolCaseSensitive(data) ==
  IF isString(data)
    THEN B(includes(<<S("true"), S("1"), S("yes"), S("on")>>, data))
    ELSE Boolean(data)
tryBool(data) ==
  IF isString(data)
    THEN B(includes(<<S("true"), S("1"), S("yes"), S("on")>>, S(toLowerCase(data.v))))
    ELSE Boolean(data)
tryDate(data) ==
  IF isString(data) \/ isNumber(data) THEN NewDate(data) ELSE data

\* hook(data) for the hook a schema made by pre closes over
callHook(hook, data) ==
  CASE hook = "tryNum" -> tryNum(data)
    [] hook = "tryStr" -> tryStr(data)
    [] hook = "tryBool" -> tryBool(data)
    [] hook = "tryDate" -> tryDate(data)

preParse(this, self, data, at, st) ==
  Parse(this.schema, callHook(this.hook, data), at \o <<1>>, st)

\* the body of a step function applied to data: a Result<T, string>
applyFn(f, data) ==
  CASE f.fn = "minLen" ->
         IF Len(data.v) < f.min
           THEN Err(IF isNil(f.message)
                      THEN S("Expected length to be at least " \o ToString(f.min)
                             \o ", but got " \o ToString(Len(data.v)))
                      ELSE f.message)
           ELSE Ok(data)
    [] f.fn = "maxLen" ->
         IF Len(data.v) > f.max
           THEN Err(IF isNil(f.message)
                      THEN S("Expected length to be at most " \o ToString(f.max)
                             \o ", but got " \o ToString(Len(data.v)))
                      ELSE f.message)
           ELSE Ok(data)
    [] f.fn = "upcase" -> Ok(S(toUpperCase(data.v)))
    [] f.fn = "lowcase" -> Ok(S(toLowerCase(data.v)))
    [] f.fn = "notEmpty" -> IF Len(data.v) = 0 THEN Err(S(f.msg)) ELSE Ok(data)
    [] f.fn = "min" -> IF Less(data, N(f.min)) THEN Err(S(f.msg)) ELSE Ok(data)
    [] f.fn = "max" -> IF Greater(data, N(f.max)) THEN Err(S(f.msg)) ELSE Ok(data)
    [] f.fn = "clamp" -> Ok(MathMin(MathMax(data, N(f.min)), N(f.max)))
    [] f.fn = "range" ->
         IF Less(data, N(f.min)) \/ Greater(data, N(f.max))
           THEN Err(IF isNil(f.message)
                      THEN S("Expected value to be in range " \o ToString(f.min)
                             \o " - " \o ToString(f.max) \o ", but got "
                             \o String(data))
                      ELSE f.message)
           ELSE Ok(data)
    [] f.fn = "fail" -> Err(S(f.m))
    [] f.fn = "toNumber" -> Ok(Number(data))

\* the call of the step function fn; the invocation is appended to st.calls
callFn(fn, data, at, st) ==
  LET result == applyFn(Fns[fn], data) IN
  Ret(result,
      [st EXCEPT !.calls =
         Append(@, [at |-> at, schema |-> fn, data |-> data, result |-> result])])

\* result.mapErr((message) => err(type, value, message))
mapErr(result, type, value) ==
  IF isErr(result) THEN Err(err(type, value, result.err)) ELSE result

\* the for-of loop of pipe.parse over the pipeline, from the k-th step
RECURSIVE pipeLoop(_, _, _, _, _, _)
\* a loop that returns after the first step of the pipeline
pipeLoopFirstStepOnly(this, self, at, st, k, acc) ==
  IF k > Len(this.pipeline) THEN Ret(Ok(acc), st)
  ELSE
    LET out == callFn(this.pipeline[k], acc, at \o <<k + 1>>, st)
        result == mapErr(out.result, this.type, acc)
    IN
    IF isErr(result) THEN Ret(result, out.st)
    ELSE Ret(Ok(result.val), out.st)

\* a loop that forgets `acc = result.unwrap()`
pipeLoopStaleAcc(this, self, at, st, k, acc) ==
  IF k > Len(this.pipeline) THEN Ret(Ok(acc), st)
  ELSE
    LET out == callFn(this.pipeline[k], acc, at \o <<k + 1>>, st)
        result == mapErr(out.result, this.type, acc)
    IN
    IF isErr(result) THEN Ret(result, out.st)
    ELSE pipeLoop(this, self, at, out.st, k + 1, acc)

pipeLoop(this, self, at, st, k, acc) ==
  IF k > Len(this.pipeline) THEN Ret(Ok(acc), st)
  ELSE
    LET out == callFn(this.pipeline[k], acc, at \o <<k + 1>>, st)
        result == mapErr(out.result, this.type, acc)
    IN
    IF isErr(result) THEN Ret(result, out.st)
    ELSE pipeLoop(this, self, at, out.st, k + 1, result.val)

\* schema.parse(data).andThen(...): a failure of schema is returned as it is
pipeParse(this, self, data, at, st) ==
  LET out == Parse(this.schema, data, at \o <<1>>, st) IN
  IF isErr(out.result) THEN Ret(out.result, out.st)
  ELSE pipeLoop(this, self, at, out.st, 1, out.result.val)

mapParse(this, self, data, at, st) ==
  LET out == Parse(this.schema, data, at \o <<1>>, st) IN
  IF isErr(out.result) THEN Ret(out.result, out.st)
  ELSE
    LET mapped == callFn(this.mapper, out.result.val, at \o <<2>>, out.st) IN
    Ret(mapErr(mapped.result, this.type, out.result.val), mapped.st)

\* the parse method of the schema object `this`
parseOf(this, self, data, at, st) ==
  CASE this.parse = "any" -> anyParse(this, self, data, at, st)
    [] this.parse = "str" -> strParse(this, self, data, at, st)
    [] this.parse = "num" -> numParse(this, self, data, at, st)
    [] this.parse = "bool" -> boolParse(this, self, data, at, st)
    [] this.parse = "date" -> dateParse(this, self, data, at, st)
    [] this.parse = "list" -> listParse(this, self, data, at, st)
    [] this.parse = "obj" -> objParse(this, self, data, at, st)
    [] this.parse = "record" -> recordParse(this, self, data, at, st)
    [] this.parse = "union" -> unionParse(this, self, data, at, st)
    [] this.parse = "tuple" -> tupleParse(this, self, data, at, st)
    [] this.parse = "oneOf" -> oneOfParse(this, self, data, at, st)
    [] this.parse = "lit" -> litParse(this, self, data, at, st)
    [] this.parse = "opt" -> optParse(this, self, data, at, st)
    [] this.parse = "def" -> defParse(this, self, data, at, st)
    [] this.parse = "pre" -> preParse(this, self, data, at, st)
    [] this.parse = "pipe" -> pipeParse(this, self, data, at, st)
    [] this.parse = "map" -> mapParse(this, self, data, at, st)

\* schema.parse(data): the call of the parse method of the schema object that
\* self refers to; the invocation is appended to st.calls when it returns
Parse(self, data, at, st) ==
  LET out == parseOf(Heap[self], self, data, at, st) IN
  [result |-> out.result,
   st |-> [out.st EXCEPT !.calls =
             Append(@, [at |-> at, schema |-> self, data |-> data,
                        result |-> out.result])]]

(***************************************************************************)
(* The inputs a caller passes to parse.                                    *)
(***************************************************************************)
\* the longest input array
MaxLen == 2

Prims == {U, Null, S("a"), S("b"), N(1), B(TRUE)}

\* the elements of input arrays
Elems == {S("a"), S("b"), N(1)}

\* the property values of input objects
PropVals == {S("a"), N(1)}

RECURSIVE SeqsOf(_, _)
SeqsOf(set, n) ==
  IF n = 0 THEN {<<>>}
  ELSE {Append(s, e) : s \in SeqsOf(set, n - 1), e \in set}

Arrays == {A(s) : s \in UNION {SeqsOf(Elems, n) : n \in 0..MaxLen}}

Objects ==
  {O(<<>>)}
    \cup {O(<<<<k, e>>>>) : k \in {"x", "y"}, e \in PropVals}
    \cup {O(<<<<"x", e1>>, <<"y", e2>>>>) : e1 \in PropVals, e2 \in PropVals}
    \cup {O(<<<<"y", N(1)>>, <<"x", S("a")>>, <<"z", B(TRUE)>>>>),
          O(<<<<"z", B(TRUE)>>>>)}

Nested ==
  {A(<<O(<<<<"x", N(1)>>>>), O(<<<<"x", S("a")>>>>)>>),
   A(<<O(<<<<"x", N(1)>>>>)>>),
   A(<<A(<<S("a")>>), A(<<S("a"), N(1)>>)>>),
   A(<<A(<<S("a")>>), O(<<<<"x", S("a")>>>>)>>),
   A(<<A(<<N(1)>>), O(<<<<"x", N(1)>>>>)>>),
   O(<<<<"x", A(<<S("a")>>)>>, <<"y", A(<<S("a"), N(1)>>)>>>>),
   O(<<<<"x", A(<<S("a"), N(1)>>)>>, <<"y", A(<<N(1)>>)>>>>),
   O(<<<<"x", A(<<S("a")>>)>>, <<"y", A(<<S("a"), S("a")>>)>>>>),
   O(<<<<"x", A(<<S("a")>>)>>, <<"y", A(<<N(1), N(1)>>)>>>>),
   O(<<<<"x", A(<<S("a")>>)>>>>),
   O(<<<<"y", A(<<S("a")>>)>>, <<"x", A(<<N(1)>>)>>>>)}

Inputs == Prims \cup Arrays \cup Objects \cup Nested

\* the raw inputs of the second group of callers: text as it comes from
\* forms and configuration files, numbers, booleans, dates, small arrays
\* and objects
Words ==
  {"", "a", "b", "ab", "AB", "1", "0", "12", "true", "TRUE", "True", "yes", "YES",
   "on", "On", "no", "false", "off", "1970-01-02"}

Raw ==
  {S(w) : w \in Words}
    \cup {N(0), N(1), N(2), N(0 - 1), B(TRUE), B(FALSE), U, Null, D(0), InvalidDate}
    \cup {A(<<>>), A(<<S("a")>>), A(<<S("a"), S("b")>>), A(<<N(1)>>)}
    \cup {O(<<>>), O(<<<<"x", N(1)>>>>), O(<<<<"x", S("a")>>>>), O(<<<<"y", N(1)>>>>),
          O(<<<<"x", S("a")>>, <<"y", N(1)>>>>),
          O(<<<<"x", N(1)>>, <<"y", N(1)>>>>),
          O(<<<<"x", N(1)>>, <<"y", S("a")>>>>),
          O(<<<<"x", S("a")>>, <<"y", S("a")>>>>),
          O(<<<<"y", N(1)>>, <<"z", B(TRUE)>>>>)}

HasDigit(w) == \E i \in 1..Len(w) : IndexOf(DIGITS, SubSeq(w, i, i)) /= 0

\* the inputs a caller passes to the schema s: a numeric coercion is given
\* values that convert to a number, a date coercion is given date strings or
\* text without digits, a string coercion is given no date object, and the
\* membership schemas are given a few scalars
InputsOf(s) ==
  CASE s = "asNum" -> {x \in Raw : Number(x).t = "number"}
    [] s = "asDate" ->
         {x \in Raw : x.t = "string" => (x.v \in DOMAIN DateStrings \/ ~HasDigit(x.v))}
    [] s = "asStr" -> {x \in Raw : x.t /= "date"}
    [] s \in {"litA", "oneOfAB"} -> {S("a"), S("b"), S("ab"), N(1), O(<<>>)}
    [] OTHER -> Raw

(***************************************************************************)
(* The state machine                                                       *)
(***************************************************************************)
NoCall == [schema |-> "", data |-> U, result |-> Ok(U), calls |-> <<>>]
NoBuilt == [op |-> "", schemas |-> <<>>, keys |-> <<>>, out |-> Returned(U)]

\* after construction every closure variable holds the constructor's argument
InitMessage ==
  [s \in DOMAIN Heap |-> IF "message" \in DOMAIN Heap[s] THEN Heap[s].message ELSE U]

Init ==
  /\ message = InitMessage
  /\ call = NoCall
  /\ built = NoBuilt

\* a caller runs Heap[s].parse(x) and holds the Result
Call(s, x) ==
  LET out == Parse(s, x, <<>>, [message |-> message, calls |-> <<>>]) IN
  /\ call = NoCall
  /\ built = NoBuilt
  /\ message' = out.st.message
  /\ call' = [schema |-> s, data |-> x, result |-> out.result, calls |-> out.st.calls]
  /\ UNCHANGED built

\* the caller is done with the Result or with the outcome of the constructor
\* call; the schemas stay as parse left them
Release ==
  /\ call /= NoCall \/ built /= NoBuilt
  /\ call' = NoCall
  /\ built' = NoBuilt
  /\ UNCHANGED message

Next ==
  \/ \E s \in Ids, x \in Inputs : Call(s, x)
  \/ Release

Spec == Init /\ [][Next]_vars

(***************************************************************************)
(* The second group of callers: they parse raw inputs with the coercing,   *)
(* piped, mapped and derived schemas, and run the reading constructors.    *)
(***************************************************************************)
\* the most schemas given to one extend call
MaxSchemas == 2

\* the schemas the second group of callers holds
Held == DOMAIN Plain \cup DOMAIN Derived(Plain)
ObjIds == {s \in Held : Heap[s].parse = "obj"}
ObjSeqs == UNION {SeqsOf(ObjIds, n) : n \in 1..MaxSchemas}
Keys(s) == [k \in 1..Len(Heap[s].props) |-> Heap[s].props[k][1]]
\* the lists of declared keys of s, in declaration order
KeyLists(s) ==
  {SelectSeq(Keys(s), LAMBDA k : k \in K) :
     K \in SUBSET {Keys(s)[k] : k \in 1..Len(Keys(s))}}
Messages == {U, S("Invalid object")}

Construct(op, schemas, keys, out) ==
  /\ call = NoCall
  /\ built = NoBuilt
  /\ built' = [op |-> op, schemas |-> schemas, keys |-> keys, out |-> out]
  /\ UNCHANGED <<message, call>>

\* a caller runs as(Heap[s])
As(s) == Construct("as", <<s>>, <<>>, as(Heap, s))

\* a caller runs map(Heap[s], Fns[f])
Map(s, f) == Construct("map", <<s>>, <<f>>, Returned(map(Heap, s, f)))

\* a caller runs extend([...], msg)
Extend(ss, msg) == Construct("extend", ss, <<>>, Returned(extend(Heap, ss, msg)))

\* a caller runs select(Heap[s], keys, msg) or exclude(Heap[s], keys, msg)
Select(s, keys, msg) == Construct("select", <<s>>, keys, Returned(select(Heap, s, keys, msg)))
Exclude(s, keys, msg) ==
  Construct("exclude", <<s>>, keys, Returned(exclude(Heap, s, keys, msg)))

NextDerived ==
  \/ \E s \in DerivedIds : \E x \in InputsOf(s) : Call(s, x)
  \/ \E s \in Held : As(s)
  \/ \E s \in Held, f \in {"toNumber", "failM"} : Map(s, f)
  \/ \E ss \in ObjSeqs, msg \in Messages : Extend(ss, msg)
  \/ \E s \in ObjIds, msg \in Messages : \E keys \in KeyLists(s) : Select(s, keys, msg)
  \/ \E s \in ObjIds, msg \in Messages : \E keys \in KeyLists(s) : Exclude(s, keys, msg)
  \/ Release

SpecDerived == Init /\ [][NextDerived]_vars

(***************************************************************************)
(* The third group of callers parses with the pipes over numbers, the      *)
(* nested pipes and the schemas made by partial and required.              *)
(***************************************************************************)
Numbers == {N(n) : n \in (0 - 1)..6} \cup {S("a"), U}
NumberWords == {S(w) : w \in {"-1", "0", "1", "3", "4", "5", "6", "", "a"}} \cup {N(1)}
Texts == {S(w) : w \in {"", "a", "b", "ab", "AB"}} \cup {N(1), U}
Sparse ==
  {O(<<>>), O(<<<<"x", S("a")>>>>), O(<<<<"y", N(1)>>>>), O(<<<<"x", N(1)>>>>),
   O(<<<<"y", S("a")>>>>),
   O(<<<<"x", S("a")>>, <<"y", N(1)>>>>),
   O(<<<<"x", N(1)>>, <<"y", N(1)>>>>),
   O(<<<<"x", S("a")>>, <<"y", S("a")>>>>),
   O(<<<<"x", Null>>>>), O(<<<<"x", U>>, <<"y", N(1)>>>>),
   O(<<<<"x", S("a")>>, <<"y", Null>>>>),
   O(<<<<"x", Null>>, <<"y", U>>>>),
   A(<<>>), Null, S("a")}

RefinedInputs(s) ==
  CASE s \in {"objXY", "objOpt", "reqOpt", "partXY"} -> Sparse
    [] s \in {"strM", "pipeUpMin", "pipeMinE"} -> Texts
    [] Heap[s].schema = "num" -> Numbers
    [] Heap[s].schema = "mapNum" -> NumberWords
    [] OTHER -> Texts

NextRefined ==
  \/ \E s \in RefinedIds : \E x \in RefinedInputs(s) : Call(s, x)
  \/ Release

SpecRefined == Init /\ [][NextRefined]_vars

(***************************************************************************)
(* Reading the recorded call: call.calls holds one entry per parse         *)
(* invocation of the last top-level call, the top-level one included       *)
(* (at = <<>>).  Entry j is a child of entry i when i's parse made it.     *)
(***************************************************************************)
Calls == call.calls
Idx == 1..Len(Calls)
Kind(i) == Heap[Calls[i].schema].parse
IsKid(j, i) ==
  /\ Len(Calls[j].at) = Len(Calls[i].at) + 1
  /\ SubSeq(Calls[j].at, 1, Len(Calls[i].at)) = Calls[i].at
Ordinal(j) == Calls[j].at[Len(Calls[j].at)]
Kids(i) == {j \in Idx : IsKid(j, i)}
FailedKids(i) == {j \in Kids(i) : isErr(Calls[j].result)}
LastOf(js) == CHOOSE j \in js : \A j2 \in js : Ordinal(j2) <= Ordinal(j)

\* what schema s returns for x in the current state of the closure variables
Would(s, x) == Parse(s, x, <<>>, [message |-> message, calls |-> <<>>]).result

\* the path segment that names the k-th parse made by the composite call i
Segment(i, k) ==
  CASE Kind(i) \in {"list", "tuple"} -> ToString(k - 1)
    [] Kind(i) = "obj" -> Heap[Calls[i].schema].props[k][1]
    [] Kind(i) = "record" -> Calls[i].data.v[(k + 1) \div 2][1]

\* the segments of the composites crossed from call i down to the call that
\* detected the failure, root first
RECURSIVE ExpectedPath(_)
ExpectedPath(i) ==
  IF FailedKids(i) = {} THEN <<>>
  ELSE
    LET j == LastOf(FailedKids(i)) IN
    CASE Kind(i) \in {"list", "tuple", "obj", "record"} ->
           <<Segment(i, Ordinal(j))>> \o ExpectedPath(j)
      [] Kind(i) \in {"opt", "def"} -> ExpectedPath(j)
      [] OTHER -> <<>>

\* C1: the path of every returned ParseError lists one segment per enclosing
\* list, tuple, obj or record crossed between the schema that returns it and
\* the schema that detected the failure, root first (index as a string for
\* list and tuple, key for obj and record); the error of the schema that
\* detected the failure itself has an empty path.
C1_PathRootToLeaf ==
  \A i \in Idx :
    isErr(Calls[i].result) => Calls[i].result.err.path = ExpectedPath(i)

\* C1 witness: a failure two composites deep, reported with both segments
C1_Witness ==
  /\ call /= NoCall
  /\ isErr(call.result)
  /\ Len(call.result.err.path) = 2
  /\ Kind(Len(Calls)) \in {"list", "tuple", "obj", "record"}
  /\ \E j \in FailedKids(Len(Calls)) :
       /\ Kind(j) \in {"list", "tuple", "obj", "record"}
       /\ Kind(j) /= Kind(Len(Calls))
       /\ FailedKids(j) /= {}

(***************************************************************************)
(* The children of a list, tuple or obj call                               *)
(***************************************************************************)
Node(i) == Heap[Calls[i].schema]
Data(i) == Calls[i].data
Root == Len(Calls)
NKids(i) == Cardinality(Kids(i))
KidAt(i, k) == CHOOSE j \in Kids(i) : Ordinal(j) = k

\* the own property of an input object, undefined when the key is absent
Own(x, key) ==
  IF \E n \in 1..Len(x.v) : x.v[n][1] = key
    THEN x.v[CHOOSE n \in 1..Len(x.v) : x.v[n][1] = key][2]
    ELSE U

\* the input has the shape the composite call i iterates over
ShapeOk(i) ==
  CASE Kind(i) = "list" -> Data(i).t = "array"
    [] Kind(i) = "tuple" ->
         Data(i).t = "array" /\ Len(Data(i).v) = Len(Node(i).schemas)
    [] Kind(i) = "obj" -> Data(i).t = "object"

\* the number of children in iteration order, the k-th child's schema and datum
Total(i) ==
  CASE Kind(i) = "list" -> Len(Data(i).v)
    [] Kind(i) = "tuple" -> Len(Node(i).schemas)
    [] Kind(i) = "obj" -> Len(Node(i).props)
KidSchema(i, k) ==
  CASE Kind(i) = "list" -> Node(i).schema
    [] Kind(i) = "tuple" -> Node(i).schemas[k]
    [] Kind(i) = "obj" -> Node(i).props[k][2]
KidData(i, k) ==
  CASE Kind(i) \in {"list", "tuple"} -> Data(i).v[k]
    [] Kind(i) = "obj" -> Own(Data(i), Node(i).props[k][1])

\* the parses made by call i are those of the first NKids(i) children, in
\* iteration order, each once, and all but the last of them succeeded
FirstKidsParsed(i) ==
  /\ NKids(i) <= Total(i)
  /\ {Ordinal(j) : j \in Kids(i)} = 1..NKids(i)
  /\ \A j \in Kids(i) :
       /\ Calls[j].schema = KidSchema(i, Ordinal(j))
       /\ Calls[j].data = KidData(i, Ordinal(j))
       /\ Ordinal(j) < NKids(i) => isOk(Calls[j].result)

\* C2: list, tuple and obj parse their children in iteration order and stop
\* at the first one that fails: the returned error is that child's error
\* (with its index or key in front of the path), and no later child is parsed.
C2_FailFast ==
  \A i \in Idx :
    (Kind(i) \in {"list", "tuple", "obj"} /\ ShapeOk(i)) =>
      /\ FirstKidsParsed(i)
      /\ IF isErr(Calls[i].result)
           THEN /\ NKids(i) >= 1
                /\ LET kid == Calls[KidAt(i, NKids(i))].result IN
                   /\ isErr(kid)
                   /\ Calls[i].result.err =
                        [kid.err EXCEPT !.path = <<Segment(i, NKids(i))>> \o @]
           ELSE /\ NKids(i) = Total(i)
                /\ \A j \in Kids(i) : isOk(Calls[j].result)

\* C2 witness: two children would fail; the first one was reported and the
\* second one was not parsed
C2_Witness ==
  /\ call /= NoCall
  /\ Kind(Root) \in {"list", "tuple", "obj"}
  /\ ShapeOk(Root)
  /\ isErr(call.result)
  /\ NKids(Root) < Total(Root)
  /\ \E k \in (NKids(Root) + 1)..Total(Root) :
       isErr(Would(KidSchema(Root, k), KidData(Root, k)))

\* C3: parse(x) returns what a freshly constructed identical schema returns
\* for x, whatever parse calls came before.
C3_Stateless ==
  call /= NoCall =>
    call.result =
      Parse(call.schema, call.data, <<>>, [message |-> InitMessage, calls |-> <<>>]).result

\* C4: union succeeds iff some alternative succeeds on the input; the
\* alternatives are tried in declared order, the result is the result of the
\* first one that succeeds, and the alternatives after it are not tried.
C4_UnionFirstSuccess ==
  \A i \in Idx :
    Kind(i) = "union" =>
      LET alts == Node(i).schemas IN
      /\ NKids(i) <= Len(alts)
      /\ {Ordinal(j) : j \in Kids(i)} = 1..NKids(i)
      /\ \A j \in Kids(i) :
           /\ Calls[j].schema = alts[Ordinal(j)]
           /\ Calls[j].data = Data(i)
           /\ Ordinal(j) < NKids(i) => isErr(Calls[j].result)
      /\ isOk(Calls[i].result) <=>
           \E k \in 1..Len(alts) : isOk(Would(alts[k], Data(i)))
      /\ isOk(Calls[i].result) =>
           /\ NKids(i) >= 1
           /\ Calls[i].result = Calls[KidAt(i, NKids(i))].result
           /\ Calls[i].result = Would(alts[NKids(i)], Data(i))
           /\ \A k \in 1..(NKids(i) - 1) : isErr(Would(alts[k], Data(i)))
      /\ isErr(Calls[i].result) => NKids(i) = Len(alts)

\* C4 witness: the first alternative succeeded and a later alternative, which
\* was not tried, would have succeeded with another value
C4_Witness ==
  /\ call /= NoCall
  /\ Kind(Root) = "union"
  /\ isOk(call.result)
  /\ \E k \in (NKids(Root) + 1)..Len(Node(Root).schemas) :
       /\ isOk(Would(Node(Root).schemas[k], call.data))
       /\ Would(Node(Root).schemas[k], call.data) /= call.result

\* the type tags of the schemas ids[k..], joined with " | "
RECURSIVE TagsFrom(_, _)
TagsFrom(ids, k) ==
  IF k = Len(ids) THEN Heap[ids[k]].type
  ELSE Heap[ids[k]].type \o " | " \o TagsFrom(ids, k + 1)

\* C5: when every alternative fails the union's error is built from the union
\* alone: expected is the alternatives' type tags joined with " | ", value is
\* the input, path is empty and message is the union's override or the
\* generated default; nothing comes from an alternative's error.
C5_UnionFreshError ==
  \A i \in Idx :
    (Kind(i) = "union" /\ isErr(Calls[i].result)) =>
      LET e == Calls[i].result.err IN
      /\ e.expected = TagsFrom(Node(i).schemas, 1)
      /\ e.value = Data(i)
      /\ e.path = <<>>
      /\ e.message =
           IF Node(i).message.t = "string" /\ Node(i).message.v /= ""
             THEN Node(i).message.v
             ELSE "Expected " \o TagsFrom(Node(i).schemas, 1) \o ", but got " \o e.actual

\* C5 witness: a union failed after composite alternatives failed deep inside
\* the input
C5_Witness ==
  /\ call /= NoCall
  /\ Kind(Root) = "union"
  /\ isErr(call.result)
  /\ \E j \in Kids(Root) : Calls[j].result.err.path /= <<>>

C7_ListElementwise ==
  \A i \in Idx :
    Kind(i) = "list" =>
      IF Data(i).t /= "array"
        THEN /\ isErr(Calls[i].result)
             /\ Calls[i].result.err.expected = "list"
             /\ Calls[i].result.err.path = <<>>
             /\ Kids(i) = {}
        ELSE (\A n \in 1..Len(Data(i).v) : isOk(Would(Node(i).schema, Data(i).v[n]))) =>
               /\ isOk(Calls[i].result)
               /\ Calls[i].result.val.t = "List"
               /\ Len(Calls[i].result.val.v) = Len(Data(i).v)
               /\ \A n \in 1..Len(Data(i).v) :
                    Calls[i].result.val.v[n] = Would(Node(i).schema, Data(i).v[n]).val

\* C7 witness: a list of two different elements parsed successfully
C7_Witness ==
  /\ call /= NoCall
  /\ Kind(Root) = "list"
  /\ isOk(call.result)
  /\ Len(call.data.v) >= 2
  /\ call.result.val.v[1] /= call.result.val.v[2]

\* C8: tuple returns a tuple-typed error with an empty path, parsing no
\* element, when the input is not an array or its length differs from the
\* number of schemas; otherwise the positions are validated in ascending
\* order and the first failing position i gives that child's error with the
\* string i in front of its path.
C8_TupleLengthFirst ==
  \A i \in Idx :
    Kind(i) = "tuple" =>
      IF Data(i).t /= "array" \/ Len(Data(i).v) /= Len(Node(i).schemas)
        THEN /\ isErr(Calls[i].result)
             /\ Calls[i].result.err.expected = "tuple"
             /\ Calls[i].result.err.path = <<>>
             /\ Calls[i].result.err.value = Data(i)
             /\ Kids(i) = {}
        ELSE /\ {Ordinal(j) : j \in Kids(i)} = 1..NKids(i)
             /\ \A j \in Kids(i) :
                  /\ Calls[j].schema = Node(i).schemas[Ordinal(j)]
                  /\ Calls[j].data = Data(i).v[Ordinal(j)]
                  /\ isErr(Calls[j].result) =>
                       /\ Ordinal(j) = NKids(i)
                       /\ isErr(Calls[i].result)
                       /\ Calls[i].result.err.path =
                            <<ToString(Ordinal(j) - 1)>> \o Calls[j].result.err.path
                       /\ Calls[i].result.err.message = Calls[j].result.err.message
                       /\ Calls[i].result.err.value = Calls[j].result.err.value
             /\ isErr(Calls[i].result) => \E j \in Kids(i) : isErr(Calls[j].result)

\* C8 witness: an array of the wrong length whose element at an existing
\* position would itself fail
C8_Witness ==
  /\ call /= NoCall
  /\ Kind(Root) = "tuple"
  /\ call.data.t = "array"
  /\ Len(call.data.v) /= Len(Node(Root).schemas)
  /\ \E n \in 1..Len(call.data.v) :
       /\ n <= Len(Node(Root).schemas)
       /\ isErr(Would(Node(Root).schemas[n], call.data.v[n]))

\* C9: opt succeeds with the absent variant on null and undefined without
\* invoking the child; on any other input it invokes the child once and
\* returns the child's value wrapped in the present variant or the child's
\* error unchanged.
C9_OptDelegates ==
  \A i \in Idx :
    Kind(i) = "opt" =>
      IF Data(i).t \in {"undefined", "null"}
        THEN /\ Calls[i].result = Ok(None)
             /\ Kids(i) = {}
        ELSE /\ NKids(i) = 1
             /\ LET kid == Calls[KidAt(i, 1)] IN
                /\ kid.schema = Node(i).schema
                /\ kid.data = Data(i)
                /\ isOk(Calls[i].result) <=> isOk(kid.result)
                /\ isOk(kid.result) => Calls[i].result.val = Some(kid.result.val)
                /\ isErr(kid.result) => Calls[i].result.err = kid.result.err

\* C9 witness: the child failed deep inside the input and opt returned its
\* error, path included
C9_Witness ==
  /\ call /= NoCall
  /\ Kind(Root) = "opt"
  /\ isErr(call.result)
  /\ call.result.err.path /= <<>>

\* C10: def succeeds with the default value itself on null and undefined
\* without invoking the child; on any other input its result is the child's
\* result.
C10_DefBypassesChild ==
  \A i \in Idx :
    Kind(i) = "def" =>
      IF Data(i).t \in {"undefined", "null"}
        THEN /\ Calls[i].result = Ok(Node(i).defaultValue)
             /\ Kids(i) = {}
        ELSE /\ NKids(i) = 1
             /\ Calls[KidAt(i, 1)].schema = Node(i).schema
             /\ Calls[KidAt(i, 1)].data = Data(i)
             /\ Calls[i].result = Calls[KidAt(i, 1)].result

\* C10 witness: the default value was returned although the child schema
\* rejects it
C10_Witness ==
  /\ call /= NoCall
  /\ Kind(Root) = "def"
  /\ call.data.t \in {"undefined", "null"}
  /\ isOk(call.result)
  /\ isErr(Would(Node(Root).schema, call.result.val))

(***************************************************************************)
(* pipe, map and the step functions.  In the recorded call a step          *)
(* invocation is an entry whose schema field names the step function.      *)
(***************************************************************************)
IsFn(i) == Calls[i].schema \in DOMAIN Fns
IsSchema(i) == Calls[i].schema \in DOMAIN Heap
ParseOf(i) == IF IsSchema(i) THEN Heap[Calls[i].schema].parse ELSE "fn"
PipeCalls == {i \in Idx : ParseOf(i) = "pipe"}
MapCalls == {i \in Idx : ParseOf(i) = "map"}

\* the k-th step invocation of the pipe call i (its (k+1)-th child)
StepAt(i, k) == KidAt(i, k + 1)
\* the number of steps the pipe call i invoked
NSteps(i) == NKids(i) - 1

\* C11: pipe(schema, f1..fn).parse(x) first runs schema.parse(x); when that
\* fails no step runs and the schema's error is returned unchanged.  Otherwise
\* the steps run strictly in declared order, step 1 on the schema's value and
\* step k on the value step k-1 returned; the first failing step ends the
\* call, and when every step succeeds the result is the last step's value.
C11_PipeInOrder ==
  \A i \in PipeCalls :
    /\ NKids(i) >= 1
    /\ {Ordinal(j) : j \in Kids(i)} = 1..NKids(i)
    /\ Calls[KidAt(i, 1)].schema = Node(i).schema
    /\ Calls[KidAt(i, 1)].data = Data(i)
    /\ IF isErr(Calls[KidAt(i, 1)].result)
         THEN /\ NKids(i) = 1
              /\ Calls[i].result = Calls[KidAt(i, 1)].result
         ELSE /\ NSteps(i) <= Len(Node(i).pipeline)
              /\ \A k \in 1..NSteps(i) :
                   /\ Calls[StepAt(i, k)].schema = Node(i).pipeline[k]
                   /\ KidAt(i, k) < StepAt(i, k)
                   /\ Calls[StepAt(i, k)].data = Calls[KidAt(i, k)].result.val
                   /\ k < NSteps(i) => isOk(Calls[StepAt(i, k)].result)
              /\ IF isOk(Calls[KidAt(i, NKids(i))].result)
                   THEN /\ NSteps(i) = Len(Node(i).pipeline)
                        /\ Calls[i].result = Ok(Calls[KidAt(i, NKids(i))].result.val)
                   ELSE isErr(Calls[i].result)

\* C11 witness: two steps ran and the second one received the value the first
\* one produced, which is not the value the schema validated
C11_Witness ==
  /\ call /= NoCall
  /\ ParseOf(Root) = "pipe"
  /\ NSteps(Root) = 2
  /\ isOk(call.result)
  /\ Calls[StepAt(Root, 2)].data = Calls[StepAt(Root, 1)].result.val
  /\ Calls[StepAt(Root, 2)].data /= Calls[StepAt(Root, 1)].data

\* the step invocation of the pipe call i that failed, if any
FailedSteps(i) == {j \in Kids(i) : IsFn(j) /\ isErr(Calls[j].result)}

\* C12: when a step of a pipe fails with the message m, whatever string m is
\* (the empty string included), the pipe returns the ParseError with expected
\* "pipe", an empty path, the value that was passed to that step, and m as the
\* message.
C12_StepMessageKept ==
  \A i \in PipeCalls :
    \A j \in FailedSteps(i) :
      /\ isErr(Calls[i].result)
      /\ Calls[i].result.err.expected = "pipe"
      /\ Calls[i].result.err.path = <<>>
      /\ Calls[i].result.err.value = Calls[j].data
      /\ Calls[i].result.err.message = Calls[j].result.err.v

\* C13: map(schema, mapper) carries the type tag of schema; its parse invokes
\* schema first and the mapper only when schema succeeded, on the validated
\* value, and returns schema's error unchanged otherwise; when the mapper
\* fails with the message m the returned ParseError has the message m, the
\* validated value as value, an empty path and the inherited tag as expected.
C13_MapInheritsTag ==
  /\ built.op = "map" => built.out.value.type = Heap[built.schemas[1]].type
  /\ \A i \in MapCalls :
       /\ Node(i).type = Heap[Node(i).schema].type
       /\ NKids(i) >= 1
       /\ Calls[KidAt(i, 1)].schema = Node(i).schema
       /\ Calls[KidAt(i, 1)].data = Data(i)
       /\ IF isErr(Calls[KidAt(i, 1)].result)
            THEN /\ NKids(i) = 1
                 /\ Calls[i].result = Calls[KidAt(i, 1)].result
            ELSE /\ NKids(i) = 2
                 /\ Calls[KidAt(i, 2)].schema = Node(i).mapper
                 /\ Calls[KidAt(i, 2)].data = Calls[KidAt(i, 1)].result.val
                 /\ IF isOk(Calls[KidAt(i, 2)].result)
                      THEN Calls[i].result = Calls[KidAt(i, 2)].result
                      ELSE /\ isErr(Calls[i].result)
                           /\ Calls[i].result.err.message = Calls[KidAt(i, 2)].result.err.v
                           /\ Calls[i].result.err.value = Calls[KidAt(i, 1)].result.val
                           /\ Calls[i].result.err.path = <<>>
                           /\ Calls[i].result.err.expected = Node(i).type

(***************************************************************************)
(* as and the coercing schemas                                             *)
(***************************************************************************)
Coercible == {"number", "string", "boolean", "date"}
PreCalls == {i \in Idx : ParseOf(i) = "pre"}

FalsyNonString(x) ==
  \/ x.t \in {"undefined", "null", "NaN"}
  \/ x.t = "number" /\ x.v = 0
  \/ x.t = "boolean" /\ ~x.v

\* C15: as(bool()).parse(x) succeeds with true for a string x whose letters,
\* case ignored, spell "true", "1", "yes" or "on", with false for every other
\* string, with the truthiness of x when x is not a string, and so with x
\* itself when x is a boolean.
C15_AsBoolTable ==
  \A i \in PreCalls :
    Node(i).hook = "tryBool" =>
      CASE Data(i).t = "string" ->
             Calls[i].result =
               Ok(B(toUpperCase(Data(i).v) \in {"TRUE", "1", "YES", "ON"}))
        [] Data(i).t = "boolean" -> Calls[i].result = Ok(Data(i))
        [] OTHER -> Calls[i].result = Ok(B(~FalsyNonString(Data(i))))

\* C15 witness: a string written with capitals was coerced to true
C15_Witness ==
  /\ call /= NoCall
  /\ ParseOf(Root) = "pre"
  /\ Node(Root).hook = "tryBool"
  /\ call.data.t = "string"
  /\ toLowerCase(call.data.v) /= call.data.v
  /\ call.result = Ok(B(TRUE))

\* C16: whenever the parse of a schema made by as fails on the input x, the
\* value field of the returned ParseError is x itself, never what the cast
\* made of x.
C16_ErrorHoldsOriginal ==
  \A i \in PreCalls :
    isErr(Calls[i].result) => Calls[i].result.err.value = Data(i)

(***************************************************************************)
(* The primitive schemas                                                   *)
(***************************************************************************)
PrimTag == [str |-> "string", num |-> "number", bool |-> "boolean"]
PrimCalls == {i \in Idx : ParseOf(i) \in DOMAIN PrimTag}

GeneratedText(node, d) ==
  IF node.parse = "lit"
    THEN "Expected " \o JSONstringify(node.value) \o ", but got " \o JSONstringify(d)
    ELSE "Expected one of " \o JSONstringify(A(node.values)) \o ", but got "
           \o JSONstringify(d)

\* C18: for lit and oneOf built without an override message, every failing
\* parse(d), the second and later failing calls on the same schema included,
\* returns the message that embeds the JSON text of the d of that very call
\* next to the expected literal or the allowed set.
C18_MessageOfThisCall ==
  \A i \in Idx :
    (/\ ParseOf(i) \in {"lit", "oneOf"}
     /\ Node(i).message = U
     /\ isErr(Calls[i].result)) =>
      Calls[i].result.err.message = GeneratedText(Node(i), Data(i))

(***************************************************************************)
(* extend, select and exclude                                              *)
(***************************************************************************)
\* the keys a property map declares, and the child it declares for a key
KeySet(props) == {props[k][1] : k \in 1..Len(props)}
ChildOf(props, key) == props[CHOOSE k \in 1..Len(props) : props[k][1] = key][2]
DeclaresOnce(props) ==
  \A k1, k2 \in 1..Len(props) : props[k1][1] = props[k2][1] => k1 = k2

\* the last of the schemas ss that declares key
LastDeclaring(ss, key) ==
  ss[CHOOSE n \in 1..Len(ss) :
       /\ key \in KeySet(Heap[ss[n]].props)
       /\ \A m \in (n + 1)..Len(ss) : key \notin KeySet(Heap[ss[m]].props)]

\* C19: extend([A, B, ...]) builds an object schema that declares every key
\* some input declares, each once, with the child of the last input that
\* declares the key; it validates an input exactly as the obj schema over
\* that merged map does (the first failing key is reported as the path).
C19_ExtendLastWins ==
  /\ built.op = "extend" =>
       LET merged == built.out.value IN
       /\ ~built.out.thrown
       /\ merged = obj(merged.props, merged.message)
       /\ DeclaresOnce(merged.props)
       /\ KeySet(merged.props) =
            UNION {KeySet(Heap[built.schemas[n]].props) : n \in 1..Len(built.schemas)}
       /\ \A key \in KeySet(merged.props) :
            ChildOf(merged.props, key) =
              ChildOf(Heap[LastDeclaring(built.schemas, key)].props, key)
  /\ call.schema = "extXYX" => call.result = Would("objNN", call.data)
  /\ call.schema = "extXXY" =>
       IF call.data.t = "object"
         THEN call.result = Would("objXY", call.data)
         ELSE call.result = Err(err("object", call.data, S("Invalid extension")))

\* C19 witness: two schemas declaring the same key with different children
\* were merged
C19_Witness ==
  /\ built.op = "extend"
  /\ Len(built.schemas) = 2
  /\ \E key \in KeySet(Heap[built.schemas[1]].props) \cap KeySet(Heap[built.schemas[2]].props) :
       /\ ChildOf(Heap[built.schemas[1]].props, key) /=
            ChildOf(Heap[built.schemas[2]].props, key)
       /\ ChildOf(built.out.value.props, key) =
            ChildOf(Heap[built.schemas[2]].props, key)

\* the declarations (key and child) of a property map
PropSet(props) == {props[k] : k \in 1..Len(props)}

\* C20: select(S, K) declares exactly the props of S whose key is in K and
\* exclude(S, K) exactly those whose key is not in K, each with S's child; the
\* two are disjoint and together are S.props, which neither of them changes.
\* An input that lacks a key the derived schema does not retain still passes.
C20_SelectExcludePartition ==
  /\ built.op \in {"select", "exclude"} =>
       LET S_ == Heap[built.schemas[1]]
           K == {built.keys[k] : k \in 1..Len(built.keys)}
           derived == built.out.value
           selected == select(Heap, built.schemas[1], built.keys, U).props
           excluded == exclude(Heap, built.schemas[1], built.keys, U).props
       IN
       /\ ~built.out.thrown
       /\ derived = obj(derived.props, derived.message)
       /\ DeclaresOnce(derived.props)
       /\ built.op = "select" =>
            PropSet(derived.props) = {e \in PropSet(S_.props) : e[1] \in K}
       /\ built.op = "exclude" =>
            PropSet(derived.props) = {e \in PropSet(S_.props) : e[1] \notin K}
       /\ PropSet(selected) \cap PropSet(excluded) = {}
       /\ PropSet(selected) \cup PropSet(excluded) = PropSet(S_.props)
  /\ (/\ call.schema = "selY"
      /\ call.data.t = "object"
      /\ Own(call.data, "y").t = "number") => isOk(call.result)
  /\ (/\ call.schema = "exclY"
      /\ call.data.t = "object"
      /\ Own(call.data, "x").t = "string") => isOk(call.result)

\* C20 witness: a schema made by exclude accepted an object that lacks the
\* excluded key
C20_Witness ==
  /\ call.schema = "exclY"
  /\ call.data.t = "object"
  /\ ~HasKey(call.data.v, "y")
  /\ isOk(call.result)

(***************************************************************************)
(* partial and required                                                    *)
(***************************************************************************)
Accepts(s, x) == isOk(Would(s, x))
Present(x, key) == HasKey(x.v, key)

\* C21: partial(S) accepts a plain object in which any subset of the declared
\* keys is absent, the empty object included, succeeding with no value for
\* the missing keys, and it fails when the value of a present key does not
\* pass that key's schema of S.
C21_PartialOnlyAbsence ==
  (call.schema = "partXY" /\ call.data.t = "object") =>
    LET props == Heap["objXY"].props IN
    /\ isOk(call.result) <=>
         \A k \in 1..Len(props) :
           Present(call.data, props[k][1]) =>
             Accepts(props[k][2], Own(call.data, props[k][1]))
    /\ isOk(call.result) =>
         \A k \in 1..Len(props) :
           ~Present(call.data, props[k][1]) =>
             Own(call.result.val, props[k][1]) = None

\* C21 as amended: a key whose value is null or undefined counts as absent.
\* partial(S) accepts a plain object exactly when every declared key is
\* absent, null or undefined, or holds a value that passes that key's schema
\* of S; the result holds no value (None) for the former keys and the
\* validated value for the latter.
C21_PartialNilIsAbsent ==
  (call.schema = "partXY" /\ call.data.t = "object") =>
    LET props == Heap["objXY"].props IN
    /\ isOk(call.result) <=>
         \A k \in 1..Len(props) :
           \/ isNil(Own(call.data, props[k][1]))
           \/ Accepts(props[k][2], Own(call.data, props[k][1]))
    /\ isOk(call.result) =>
         \A k \in 1..Len(props) :
           Own(call.result.val, props[k][1]) =
             IF isNil(Own(call.data, props[k][1])) THEN None
             ELSE Some(Own(call.data, props[k][1]))

\* C21 witness: an object with one key missing and the other one null passed
C21_Witness ==
  /\ call.schema = "partXY"
  /\ call.data.t = "object"
  /\ \E key \in {"x", "y"} : Present(call.data, key) /\ Own(call.data, key) = Null
  /\ \E key \in {"x", "y"} : ~Present(call.data, key)
  /\ isOk(call.result)

\* C22: required(S), for an object schema S whose properties are all wrapped
\* with opt, succeeds only when every declared key is present and passes the
\* schema its wrapper holds, returning the values unwrapped, and fails when a
\* declared key is absent.
C22_RequiredUnwraps ==
  (call.schema = "reqOpt" /\ call.data.t = "object") =>
    LET props == Heap["objOpt"].props
        inner(k) == Heap[props[k][2]].schema
    IN
    /\ \A k \in 1..Len(props) : Heap[props[k][2]].parse = "opt"
    /\ isOk(call.result) <=>
         \A k \in 1..Len(props) :
           /\ Present(call.data, props[k][1])
           /\ Accepts(inner(k), Own(call.data, props[k][1]))
    /\ isOk(call.result) =>
         \A k \in 1..Len(props) :
           Own(call.result.val, props[k][1]) = Own(call.data, props[k][1])

\* C22 witness: an object that S accepts was rejected for its missing key
C22_Witness ==
  /\ call.schema = "reqOpt"
  /\ call.data.t = "object"
  /\ Accepts("objOpt", call.data)
  /\ Present(call.data, "x")
  /\ ~Present(call.data, "y")
  /\ isErr(call.result)
  /\ call.result.err.path = <<"y">>

(***************************************************************************)
(* The steps over numbers.  A number is a value whose runtime type is      *)
(* "number": NaN is one.                                                   *)
(***************************************************************************)
FnOf(i) == Fns[Calls[i].schema]
StepCalls(fn) ==
  {i \in Idx : IsFn(i) /\ FnOf(i).fn = fn /\ getTypeOf(Data(i)) = "number"}
Between(x, lo, hi) == x.t = "number" /\ lo <= x.v /\ x.v <= hi

\* C23: clamp(lo, hi) with lo <= hi never fails; for every number x it
\* succeeds with lo when x < lo, with hi when x > hi and with x otherwise, so
\* its result lies in [lo, hi] and clamping the result again gives the same
\* value.
C23_ClampIntoRange ==
  \A i \in StepCalls("clamp") :
    LET lo == FnOf(i).min
        hi == FnOf(i).max
        x == Data(i)
    IN
    /\ lo <= hi
    /\ isOk(Calls[i].result)
    /\ Calls[i].result.val =
         IF Less(x, N(lo)) THEN N(lo) ELSE IF Greater(x, N(hi)) THEN N(hi) ELSE x
    /\ Between(Calls[i].result.val, lo, hi)
    /\ applyFn(FnOf(i), Calls[i].result.val) = Calls[i].result

SignCalls(id) ==
  {i \in Idx : IsFn(i) /\ Calls[i].schema = id /\ getTypeOf(Data(i)) = "number"}

\* C24: positive() accepts exactly the numbers x >= 0 and negative() exactly
\* the numbers x <= 0; 0 passes both and is the only number that passes both.
C24_SignBoundaryInclusive ==
  /\ \A i \in SignCalls("positive") :
       isOk(Calls[i].result) <=> (Data(i).t = "number" /\ Data(i).v >= 0)
  /\ \A i \in SignCalls("negative") :
       isOk(Calls[i].result) <=> (Data(i).t = "number" /\ Data(i).v <= 0)
  /\ \A i \in SignCalls("positive") \cup SignCalls("negative") :
       Data(i) = N(0) => isOk(Calls[i].result)
  /\ \A i \in SignCalls("positive") : \A j \in SignCalls("negative") :
       (Data(i) = Data(j) /\ isOk(Calls[i].result) /\ isOk(Calls[j].result))
         => Data(i) = N(0)

Shown(x) == IF x.t = "number" THEN ToString(x.v) ELSE "NaN"

\* C25: range(lo, hi) accepts a number x exactly when lo <= x <= hi, that is
\* exactly when both min(lo) and max(hi) accept x; it returns x unchanged, and
\* its default message is "Expected value to be in range <lo> - <hi>, but got
\* <x>".
C25_RangeIsMinAndMax ==
  \A i \in StepCalls("range") :
    LET lo == FnOf(i).min
        hi == FnOf(i).max
        x == Data(i)
    IN
    /\ isOk(Calls[i].result) <=> Between(x, lo, hi)
    /\ isOk(Calls[i].result) <=>
         (isOk(applyFn(min(lo, U), x)) /\ isOk(applyFn(max(hi, U), x)))
    /\ isOk(Calls[i].result) => Calls[i].result = Ok(x)
    /\ (~isOk(Calls[i].result) /\ isNil(FnOf(i).message)) =>
         Calls[i].result =
           Err(S("Expected value to be in range " \o ToString(lo) \o " - "
                 \o ToString(hi) \o ", but got " \o Shown(x)))

(***************************************************************************)
(* Passing a child's failure on                                            *)
(***************************************************************************)
Composite(i) == IsSchema(i) /\ Kind(i) \in {"list", "tuple", "obj", "record"}
ErrorFields == {"actual", "expected", "message", "value"}

RecordCalls == {i \in Idx : IsSchema(i) /\ Kind(i) = "record"}
Entry(i, k) == Data(i).v[(k + 1) \div 2]
IsKeyVisit(k) == k % 2 = 1

\* C27: record visits the keys of a plain object one at a time and validates
\* each key before its value; the first failure (key or value) is returned
\* with the raw key in front of its path and no further key is visited; an
\* input that is not a plain object gives a record-typed error with an empty
\* path and nothing is visited.
C27_RecordKeyThenValue ==
  \A i \in RecordCalls :
    IF Data(i).t /= "object"
      THEN /\ Kids(i) = {}
           /\ isErr(Calls[i].result)
           /\ Calls[i].result.err.expected = "record"
           /\ Calls[i].result.err.path = <<>>
           /\ Calls[i].result.err.value = Data(i)
      ELSE /\ NKids(i) <= 2 * Len(Data(i).v)
           /\ {Ordinal(j) : j \in Kids(i)} = 1..NKids(i)
           /\ \A j \in Kids(i) :
                /\ Calls[j].schema =
                     IF IsKeyVisit(Ordinal(j)) THEN Node(i).key ELSE Node(i).value
                /\ Calls[j].data =
                     IF IsKeyVisit(Ordinal(j)) THEN S(Entry(i, Ordinal(j))[1])
                     ELSE Entry(i, Ordinal(j))[2]
                /\ Ordinal(j) < NKids(i) => isOk(Calls[j].result)
                /\ \A j2 \in Kids(i) : Ordinal(j) < Ordinal(j2) => j < j2
           /\ IF isErr(Calls[i].result)
                THEN /\ NKids(i) >= 1
                     /\ LET kid == Calls[KidAt(i, NKids(i))].result IN
                        /\ isErr(kid)
                        /\ Calls[i].result.err.path =
                             <<Entry(i, NKids(i))[1]>> \o kid.err.path
                        /\ Calls[i].result.err.message = kid.err.message
                ELSE /\ NKids(i) = 2 * Len(Data(i).v)
                     /\ \A j \in Kids(i) : isOk(Calls[j].result)

\* C27 witness: the value of the first entry failed after its key had
\* passed, and the second entry was not visited
C27_Witness ==
  /\ call /= NoCall
  /\ Kind(Root) = "record"
  /\ Data(Root).t = "object"
  /\ Len(Data(Root).v) >= 2
  /\ isErr(call.result)
  /\ NKids(Root) = 2
  /\ isOk(Calls[KidAt(Root, 1)].result)

(***************************************************************************)
(* Nested and flat pipes                                                   *)
(***************************************************************************)
IsPipe(s) == Heap[s].parse = "pipe"
\* flat is pipe(S, f..., g...) where nested is pipe(pipe(S, f...), g...)
IsFlatOf(flat, nested) ==
  /\ IsPipe(nested) /\ IsPipe(Heap[nested].schema) /\ IsPipe(flat)
  /\ Heap[flat].schema = Heap[Heap[nested].schema].schema
  /\ Heap[flat].pipeline = Heap[Heap[nested].schema].pipeline \o Heap[nested].pipeline

\* C28: pipe(pipe(S, f), g).parse(x) returns what pipe(S, f, g).parse(x)
\* returns, on success and on failure alike, and a pipe with no steps returns
\* what its schema returns.
C28_PipeFlattens ==
  call /= NoCall =>
    /\ \A flat \in DOMAIN Heap :
         IsFlatOf(flat, call.schema) => call.result = Would(flat, call.data)
    /\ (IsPipe(call.schema) /\ Heap[call.schema].pipeline = <<>>) =>
         call.result = Would(Heap[call.schema].schema, call.data)

\* C28 witness: the outer step of a nested pipe failed after the inner pipe
\* had succeeded, and the heap holds the flat pipe
C28_Witness ==
  /\ call /= NoCall
  /\ \E flat \in DOMAIN Heap : IsFlatOf(flat, call.schema)
  /\ isOk(Calls[KidAt(Root, 1)].result)
  /\ isErr(call.result)
  /\ call.result.err.expected = "pipe"

(***************************************************************************)
(* The override message of a composite                                     *)
(***************************************************************************)
ShapeFits(i) == IF Kind(i) = "record" THEN Data(i).t = "object" ELSE ShapeOk(i)
Overridden == {i \in Idx : Composite(i) /\ Truthy(Node(i).message)}

BoolCasts == {i \in PreCalls : Node(i).hook = "tryBool"}

\* C30: as(bool()).parse(x) never fails: the cast hands a boolean to the
\* boolean schema for every input, so that schema's error, and the override
\* message given to it, is never produced.
C30_AsBoolTotal ==
  \A i \in BoolCasts :
    /\ Heap[Node(i).schema].type = "boolean"
    /\ isOk(Calls[i].result)
    /\ Calls[i].result.val.t = "boolean"
    /\ NKids(i) = 1
    /\ \A j \in Kids(i) :
         /\ Calls[j].schema = Node(i).schema
         /\ Data(j).t = "boolean"
         /\ isOk(Calls[j].result)
         /\ Calls[j].result = Calls[i].result

\* C30 witness: an input the boolean schema itself refuses with its override
\* was accepted through the cast
C30_Witness ==
  /\ call /= NoCall
  /\ Root \in BoolCasts
  /\ call.data.t \notin {"string", "boolean"}
  /\ Truthy(Heap[Node(Root).schema].message)
  /\ isErr(Would(Node(Root).schema, call.data))
  /\ isOk(call.result)

====
